---- MODULE Spec2Model ----
(***************************************************************************)
(* A model of stat_ts (src/src/core.py): the aggregation of a time-stamped *)
(* PnL series into one row of 13 statistics, with its two helpers          *)
(* _empty_row and _calc_consecutive.                                       *)
(*                                                                         *)
(* Numbers.  pnl entries are integers (floats that are exactly             *)
(* representable, so every sum below is exact).  A computed value is a     *)
(* record [k, n, d]:                                                       *)
(*   k = "fin"   the rational n/d in lowest terms, d > 0                   *)
(*   k = "inf"   +infinity (n = 1) or -infinity (n = -1)                   *)
(*   k = "nan"   IEEE not-a-number                                         *)
(*   k = "None"  Python's None                                             *)
(*   k = "sqrt"  sign(n) * sqrt(|n|/d), unrounded (a standard deviation)   *)
(*   k = "sqrt3" round(sign(n) * sqrt(|n|/d), 3) (a Sharpe/Sortino ratio)  *)
(* Timestamps are calendar-day numbers; the time of day plays no part in   *)
(* resample("1D").                                                         *)
(***************************************************************************)
EXTENDS Integers, Sequences, FiniteSets, TLC

VARIABLES
    args,      \* the arguments of the running stat_ts call
    pc,        \* the section of stat_ts the call is at
    locals,    \* the local variables of stat_ts
    result,    \* what the call produced: nothing yet, a DataFrame, an exception
    series,    \* _calc_consecutive: its argument
    positive,  \* _calc_consecutive: its flag
    pos,       \* _calc_consecutive: the number of elements the loop consumed
    best,      \* _calc_consecutive: local best
    current,   \* _calc_consecutive: local current
    cpc        \* _calc_consecutive: "idle", "loop" or "returned"

vars == <<args, pc, locals, result, series, positive, pos, best, current, cpc>>

----------------------------------------------------------------------------
(* Bounds of the model.                                                    *)
MaxLen == 3        \* pnl has 0..MaxLen entries
MaxDay == 2        \* timestamps fall on the days 0..MaxDay
MaxPeriod == 2     \* test_period is in 0..MaxPeriod
MaxSeriesLen == 4  \* _calc_consecutive is run on series of 0..MaxSeriesLen values

DefaultDaysInYear == 365
DefaultIdx == 0
PctFactor == 100

PnlValues == {-1, 0, 1}
DaysInYearValues == {DefaultDaysInYear, 7}
RowIds == {DefaultIdx, 7}
Targets == {"pct", "nom"}
SeriesValues == {-2, -1, 0, 1}

----------------------------------------------------------------------------
(* Exact arithmetic on the values.                                         *)

AbsInt(a) == IF a < 0 THEN -a ELSE a
Sign(a) == IF a < 0 THEN -1 ELSE IF a > 0 THEN 1 ELSE 0
MaxInt(a, b) == IF a >= b THEN a ELSE b
MinInt(a, b) == IF a <= b THEN a ELSE b

RECURSIVE GCD(_, _)
GCD(a, b) == IF b = 0 THEN a ELSE GCD(b, a % b)

RECURSIVE Pow10(_)
Pow10(e) == IF e = 0 THEN 1 ELSE 10 * Pow10(e - 1)

Rat(n, d) ==
    LET s == IF d < 0 THEN -1 ELSE 1
        g == GCD(AbsInt(n), AbsInt(d))
    IN  [k |-> "fin", n |-> (s * n) \div g, d |-> (s * d) \div g]

Fin(n) == [k |-> "fin", n |-> n, d |-> 1]
Inf == [k |-> "inf", n |-> 1, d |-> 0]
NegInf == [k |-> "inf", n |-> -1, d |-> 0]
NaN == [k |-> "nan", n |-> 0, d |-> 0]
None == [k |-> "None", n |-> 0, d |-> 0]

IsFin(x) == x.k = "fin"
IsNaN(x) == x.k = "nan"
SignOf(x) == Sign(x.n)

\* Python truthiness of a number: only zero is falsy (inf and nan are truthy).
Truthy(x) == ~(x.k \in {"fin", "sqrt", "sqrt3"} /\ x.n = 0)

\* IEEE multiplication.
Mul(x, y) ==
    IF IsNaN(x) \/ IsNaN(y) THEN NaN
    ELSE IF IsFin(x) /\ IsFin(y) THEN Rat(x.n * y.n, x.d * y.d)
    ELSE IF SignOf(x) * SignOf(y) = 0 THEN NaN
    ELSE IF SignOf(x) * SignOf(y) > 0 THEN Inf ELSE NegInf

\* IEEE addition.
Add(x, y) ==
    IF IsNaN(x) \/ IsNaN(y) THEN NaN
    ELSE IF IsFin(x) /\ IsFin(y) THEN Rat(x.n * y.d + y.n * x.d, x.d * y.d)
    ELSE IF IsFin(x) THEN y
    ELSE IF IsFin(y) THEN x
    ELSE IF x = y THEN x ELSE NaN

Neg(x) == IF IsNaN(x) THEN NaN ELSE [x EXCEPT !.n = -x.n]
Sub(x, y) == Add(x, Neg(y))

\* numpy's true division of scalars: x/0 is nan or +-inf (with a warning),
\* never an exception.
NpDiv(x, y) ==
    IF IsNaN(x) \/ IsNaN(y) THEN NaN
    ELSE IF IsFin(x) /\ IsFin(y) THEN
        IF y.n # 0 THEN Rat(x.n * y.d, x.d * y.n)
        ELSE IF x.n = 0 THEN NaN
        ELSE IF x.n > 0 THEN Inf ELSE NegInf
    ELSE IF IsFin(x) THEN Fin(0)
    ELSE IF IsFin(y) THEN (IF SignOf(x) * (IF y.n < 0 THEN -1 ELSE 1) > 0 THEN Inf ELSE NegInf)
    ELSE NaN

\* numpy's version of the division below: no exception, +-inf or nan.
PyDivAsNumpy(x, y) == NpDiv(Fin(x), Fin(y))

\* Python's true division of two ints: x / 0 raises ZeroDivisionError.
PyDiv(x, y) ==
    IF y = 0 THEN [k |-> "ZeroDivisionError", n |-> 0, d |-> 0] ELSE Rat(x, y)

AbsVal(x) == IF IsNaN(x) THEN NaN ELSE [x EXCEPT !.n = AbsInt(x.n)]

\* The integer nearest to n/d (d > 0), ties to the even one.
RInt(n, d) ==
    LET q == n \div d
        r == n % d
    IN  IF 2 * r < d THEN q
        ELSE IF 2 * r > d THEN q + 1
        ELSE IF q % 2 = 0 THEN q ELSE q + 1

\* round(x, ndigits): inf and nan stay what they are.
Round(x, ndigits) ==
    IF IsFin(x) THEN Rat(RInt(x.n * Pow10(ndigits), x.d), Pow10(ndigits)) ELSE x

\* int(x) of a finite number: truncation toward zero.
Trunc(x) == IF x.n >= 0 THEN x.n \div x.d ELSE -((-x.n) \div x.d)

RECURSIVE SumSeq(_)
SumSeq(s) == IF s = <<>> THEN 0 ELSE Head(s) + SumSeq(Tail(s))

RECURSIVE SumSq(_)
SumSq(s) == IF s = <<>> THEN 0 ELSE Head(s) * Head(s) + SumSq(Tail(s))

----------------------------------------------------------------------------
(* What a call produces.                                                   *)

Pending == [kind |-> "pending", exc |-> "", index |-> <<>>, columns |-> <<>>, values |-> <<>>]
Raise(e) == [kind |-> "raise", exc |-> e, index |-> <<>>, columns |-> <<>>, values |-> <<>>]

\* pd.DataFrame(d, index=[idx]) of a dict d of scalars, given as the sequence
\* of its (key, value) pairs in insertion order: one row, one column per key.
DataFrame(d, idx) ==
    [kind |-> "frame", exc |-> "", index |-> <<idx>>,
     columns |-> [i \in 1..Len(d) |-> d[i][1]],
     values |-> [i \in 1..Len(d) |-> d[i][2]]]

\* df.loc[idx, name] of a one-row frame.
Loc(frame, name) ==
    frame.values[CHOOSE i \in 1..Len(frame.columns) : frame.columns[i] = name]

----------------------------------------------------------------------------
(* The helpers of core.py.                                                 *)

\* The multiplier of the pct mode used in both modes.
ScaleAlwaysPct(target) == PctFactor

PostfixOf(target) == IF target = "pct" THEN "%" ELSE "pp"

ScaleOf(target) == IF target = "pct" THEN PctFactor ELSE 1

\* _empty_row with the last two columns in the other order.
EmptyRowReordered(idx, target) ==
    LET postfix == PostfixOf(target)
        base_cols == <<
            <<"sharpe", None>>,
            <<"sortino", None>>,
            <<"Kelly, %", None>>,
            <<"trades/year", None>>,
            <<"return/year, " \o postfix, None>>,
            <<"return/trade, " \o postfix, None>>,
            <<"PF", None>>,
            <<"Win, %", None>>,
            <<"Avg Win, " \o postfix, None>>,
            <<"Avg Loss, " \o postfix, None>>,
            <<"Max wins in row", None>>,
            <<"Max DD, " \o postfix, None>>,
            <<"Max losses in row", None>> >>
    IN  DataFrame(base_cols, idx)

_empty_row(idx, target) ==
    LET postfix == PostfixOf(target)
        base_cols == <<
            <<"sharpe", None>>,
            <<"sortino", None>>,
            <<"Kelly, %", None>>,
            <<"trades/year", None>>,
            <<"return/year, " \o postfix, None>>,
            <<"return/trade, " \o postfix, None>>,
            <<"PF", None>>,
            <<"Win, %", None>>,
            <<"Avg Win, " \o postfix, None>>,
            <<"Avg Loss, " \o postfix, None>>,
            <<"Max wins in row", None>>,
            <<"Max losses in row", None>>,
            <<"Max DD, " \o postfix, None>> >>
    IN  DataFrame(base_cols, idx)

\* cond of _calc_consecutive: val > 0 if positive else val < 0.
Cond(val, want_positive) == IF want_positive THEN val > 0 ELSE val < 0

\* The loop body without the reset of current.
LoopBodyNoReset(val, want_positive, st) ==
    IF Cond(val, want_positive)
    THEN [best |-> MaxInt(st.best, st.current + 1), current |-> st.current + 1]
    ELSE [best |-> st.best, current |-> st.current]

\* One pass of the loop body of _calc_consecutive over val.
LoopBody(val, want_positive, st) ==
    IF Cond(val, want_positive)
    THEN [best |-> MaxInt(st.best, st.current + 1), current |-> st.current + 1]
    ELSE [best |-> st.best, current |-> 0]

RECURSIVE ConsecutiveLoop(_, _, _)
ConsecutiveLoop(s, want_positive, st) ==
    IF s = <<>> THEN st
    ELSE ConsecutiveLoop(Tail(s), want_positive, LoopBody(Head(s), want_positive, st))

_calc_consecutive(s, want_positive) ==
    ConsecutiveLoop(s, want_positive, [best |-> 0, current |-> 0]).best

----------------------------------------------------------------------------
(* numpy / pandas operations stat_ts uses.                                 *)

count_nonzero(a) == Cardinality({i \in 1..Len(a) : a[i] # 0})

IsPos(v) == v > 0
IsNeg(v) == v < 0
IsNonZero(v) == v # 0

MinOfSet(S) == CHOOSE m \in S : \A x \in S : m <= x
MaxOfSet(S) == CHOOSE m \in S : \A x \in S : m >= x
Range(s) == {s[i] : i \in 1..Len(s)}

\* The sum of the entries stamped with `day`.
RECURSIVE DaySum(_, _, _)
DaySum(dates, pnl, day) ==
    IF pnl = <<>> THEN 0
    ELSE (IF Head(dates) = day THEN Head(pnl) ELSE 0) + DaySum(Tail(dates), Tail(pnl), day)

\* A grouping by day that makes bars for the days present only.
ResampleDaysPresent(dates, pnl) ==
    LET present == Range(dates)
        Kth(j) == CHOOSE day \in present : Cardinality({e \in present : e <= day}) = j
    IN  [j \in 1..Cardinality(present) |-> DaySum(dates, pnl, Kth(j))]

\* pd.DataFrame({"pnl": pnl}, index=dates).resample("1D").sum()["pnl"]: one
\* bin per calendar day from the first to the last day present, each the sum
\* of its entries (0 for a day without entries).
Resample(dates, pnl) ==
    LET lo == MinOfSet(Range(dates))
        hi == MaxOfSet(Range(dates))
    IN  [j \in 1..(hi - lo + 1) |-> DaySum(dates, pnl, lo + j - 1)]

\* Series.mean() of a non-empty series.
Mean(s) == Rat(SumSeq(s), Len(s))

\* The population variance of a non-empty series, and Series.std(ddof=0).
Variance(s) == Rat(Len(s) * SumSq(s) - SumSeq(s) * SumSeq(s), Len(s) * Len(s))
Std(s) == [k |-> "sqrt", n |-> Variance(s).n, d |-> Variance(s).d]

\* round((mean / std) * np.sqrt(days_in_year), 3) for std # 0.
AnnualizedRatio(mean, std, days_in_year) ==
    LET sq == Rat(mean.n * mean.n * days_in_year * std.d, mean.d * mean.d * std.n)
    IN  [k |-> "sqrt3", n |-> Sign(mean.n) * sq.n, d |-> sq.d]

\* np.cumsum and np.maximum.accumulate.
RECURSIVE CumFrom(_, _)
CumFrom(s, total) ==
    IF s = <<>> THEN <<>>
    ELSE <<total + Head(s)>> \o CumFrom(Tail(s), total + Head(s))

cumsum(s) == CumFrom(s, 0)

RECURSIVE MaxAccFrom(_, _)
MaxAccFrom(s, m) ==
    IF s = <<>> THEN <<>>
    ELSE <<MaxInt(m, Head(s))>> \o MaxAccFrom(Tail(s), MaxInt(m, Head(s)))

\* A running maximum that starts from 0 instead of the first value.
MaxAccFromZero(s) == MaxAccFrom(s, 0)

maximum_accumulate(s) == IF s = <<>> THEN <<>> ELSE MaxAccFrom(s, Head(s))

----------------------------------------------------------------------------
(* stat_ts, section by section.  Each section maps the arguments a and the *)
(* locals l to the next control point, the locals and the outcome.         *)

NoLocals ==
    [annual_coef |-> None, trades |-> None, total_return |-> None,
     return_per_trade |-> None, df |-> <<>>, daily_mean |-> None,
     daily_std |-> None, sharpe |-> None, pnl_negative |-> <<>>,
     neg_std |-> None, sortino |-> None, positive_sum |-> None,
     negative_sum |-> None, profit_factor |-> None, win_pct |-> None,
     kelly |-> None, pnl_nz |-> <<>>, max_win_cons |-> None,
     max_loss_cons |-> None, cs |-> <<>>, drawdown |-> None, max_dd |-> None,
     avg_win |-> None, avg_loss |-> None]

\* The size check with < in place of <=.
CheckSizeStrict(a, l) ==
    IF Len(a.pnl) < 1
    THEN [pc |-> "done", locals |-> l, result |-> _empty_row(a.idx, a.target_type)]
    ELSE [pc |-> "annualize", locals |-> l, result |-> Pending]

\* if pnl.size <= 1: return _empty_row(idx, target_type)
CheckSize(a, l) ==
    IF Len(a.pnl) <= 1
    THEN [pc |-> "done", locals |-> l, result |-> _empty_row(a.idx, a.target_type)]
    ELSE [pc |-> "annualize", locals |-> l, result |-> Pending]

\* np.count_nonzero(pnl), the number of trades before annualization.
TradeCount(a) == count_nonzero(a.pnl)

\* The trades per year rounded to the nearest integer instead of truncated.
TradesRounded(a, annual_coef) ==
    LET x == Mul(Fin(TradeCount(a)), annual_coef) IN Fin(RInt(x.n, x.d))

\* int(np.count_nonzero(pnl) * annual_coef), the product being finite.
Trades(a, annual_coef) == Fin(Trunc(Mul(Fin(TradeCount(a)), annual_coef)))

\* 1. annual_coef, trades, total_return, return_per_trade.  days_in_year and
\* test_period are Python ints, so a zero test_period raises
\* ZeroDivisionError; int() of a non-finite float raises too (OverflowError
\* for an infinity, ValueError for a nan).
Annualize(a, l) ==
    LET annual_coef == PyDiv(a.days_in_year, a.test_period)
        nonzero == count_nonzero(a.pnl)
        product == Mul(Fin(TradeCount(a)), annual_coef)
    IN  IF annual_coef.k = "ZeroDivisionError"
        THEN [pc |-> "done", locals |-> l, result |-> Raise("ZeroDivisionError")]
        ELSE IF ~IsFin(product)
        THEN [pc |-> "done", locals |-> [l EXCEPT !.annual_coef = annual_coef],
              result |-> Raise(IF IsNaN(product) THEN "ValueError" ELSE "OverflowError")]
        ELSE
            [pc |-> "aggregate",
             locals |-> [l EXCEPT
                 !.annual_coef = annual_coef,
                 !.trades = Trades(a, annual_coef),
                 !.total_return = Mul(Fin(SumSeq(a.pnl)), annual_coef),
                 !.return_per_trade =
                     IF nonzero # 0 THEN Rat(SumSeq(a.pnl), nonzero) ELSE Fin(0)],
             result |-> Pending]

\* kelly with an infinite profit factor treated like a zero one.
KellyZeroWhenInfinite(win_pct, profit_factor) ==
    IF Truthy(profit_factor) /\ IsFin(profit_factor)
    THEN Round(Mul(Sub(win_pct, NpDiv(Sub(Fin(1), win_pct), profit_factor)), Fin(100)), 2)
    ELSE Fin(0)

\* kelly: the formula whenever profit_factor is truthy (infinity is), else 0.
Kelly(win_pct, profit_factor) ==
    IF Truthy(profit_factor)
    THEN Round(Mul(Sub(win_pct, NpDiv(Sub(Fin(1), win_pct), profit_factor)), Fin(100)), 2)
    ELSE Fin(0)

\* 2. The daily bars, Sharpe, Sortino, profit factor, win ratio and Kelly.
Aggregate(a, l) ==
    LET df == Resample(a.dates, a.pnl)
        daily_mean == Mean(df)
        daily_std == Std(df)
        pnl_negative == [i \in 1..Len(df) |-> IF df[i] < 0 THEN df[i] ELSE 0]
        neg_std == Std(pnl_negative)
        positive_sum == Fin(SumSeq(SelectSeq(df, IsPos)))
        negative_sum == Fin(SumSeq(SelectSeq(df, IsNeg)))
        profit_factor ==
            IF Truthy(negative_sum) THEN AbsVal(NpDiv(positive_sum, negative_sum)) ELSE Inf
        win_pct == NpDiv(Fin(Len(SelectSeq(df, IsPos))), Fin(count_nonzero(df)))
    IN  [pc |-> "iterative",
         locals |-> [l EXCEPT
             !.df = df,
             !.daily_mean = daily_mean,
             !.daily_std = daily_std,
             !.sharpe = IF Truthy(daily_std)
                        THEN AnnualizedRatio(daily_mean, daily_std, a.days_in_year)
                        ELSE Inf,
             !.pnl_negative = pnl_negative,
             !.neg_std = neg_std,
             !.sortino = IF Truthy(neg_std)
                         THEN AnnualizedRatio(daily_mean, neg_std, a.days_in_year)
                         ELSE Inf,
             !.positive_sum = positive_sum,
             !.negative_sum = negative_sum,
             !.profit_factor = profit_factor,
             !.win_pct = win_pct,
             !.kelly = Kelly(win_pct, profit_factor)],
         result |-> Pending]

\* The series the streaks and the drawdown are computed on.
NonZeroBars(df) == SelectSeq(df, IsNonZero)

\* np.min(cs - np.maximum.accumulate(cs)) of a non-empty cs.
Drawdown(cs) ==
    LET peak == maximum_accumulate(cs)
    IN  MinOfSet({cs[j] - peak[j] : j \in 1..Len(cs)})

\* round(<mean of the selected bars> * scale, 3) if any bar is selected else 0
AvgOf(sel, scale) ==
    IF sel # <<>> THEN Round(Mul(Mean(sel), Fin(scale)), 3) ELSE Fin(0)

\* 3. Streaks, drawdown, average win and loss.  np.min of an empty array
\* raises ValueError.
Iterative(a, l) ==
    LET pnl_nz == NonZeroBars(l.df)
        cs == cumsum(pnl_nz)
        streaks == [l EXCEPT
            !.pnl_nz = pnl_nz,
            !.max_win_cons = Fin(_calc_consecutive(pnl_nz, TRUE)),
            !.max_loss_cons = Fin(_calc_consecutive(pnl_nz, FALSE)),
            !.cs = cs]
    IN  IF cs = <<>>
        THEN [pc |-> "done", locals |-> streaks, result |-> Raise("ValueError")]
        ELSE [pc |-> "assemble",
              locals |-> [streaks EXCEPT
                  !.drawdown = Fin(Drawdown(cs)),
                  !.max_dd = Round(Mul(Fin(Drawdown(cs)), Fin(ScaleOf(a.target_type))), 2),
                  !.avg_win = AvgOf(SelectSeq(l.df, IsPos), ScaleOf(a.target_type)),
                  !.avg_loss = AvgOf(SelectSeq(l.df, IsNeg), ScaleOf(a.target_type))],
              result |-> Pending]

\* 4. The result dict and the one-row frame.
Assemble(a, l) ==
    LET postfix == PostfixOf(a.target_type)
        scale == Fin(ScaleOf(a.target_type))
        res == <<
            <<"sharpe", l.sharpe>>,
            <<"sortino", l.sortino>>,
            <<"Kelly, %", l.kelly>>,
            <<"trades/year", l.trades>>,
            <<"return/year, " \o postfix, Round(Mul(l.total_return, scale), 2)>>,
            <<"return/trade, " \o postfix, Round(Mul(l.return_per_trade, scale), 3)>>,
            <<"PF", Round(l.profit_factor, 2)>>,
            <<"Win, %", Round(Mul(l.win_pct, Fin(100)), 2)>>,
            <<"Avg Win, " \o postfix, l.avg_win>>,
            <<"Avg Loss, " \o postfix, l.avg_loss>>,
            <<"Max wins in row", l.max_win_cons>>,
            <<"Max losses in row", l.max_loss_cons>>,
            <<"Max DD, " \o postfix, l.max_dd>> >>
    IN  [pc |-> "done", locals |-> l, result |-> DataFrame(res, a.idx)]

\* The section at control point p.
Section(p, a, l) ==
    CASE p = "start" -> CheckSize(a, l)
      [] p = "annualize" -> Annualize(a, l)
      [] p = "aggregate" -> Aggregate(a, l)
      [] p = "iterative" -> Iterative(a, l)
      [] p = "assemble" -> Assemble(a, l)

RECURSIVE RunFrom(_, _, _)
RunFrom(p, a, l) ==
    LET nxt == Section(p, a, l)
    IN  IF nxt.pc = "done" THEN nxt ELSE RunFrom(nxt.pc, a, nxt.locals)

\* A whole call of stat_ts(dates, pnl, test_period, idx, target_type, days_in_year).
stat_ts(a) == RunFrom("start", a, NoLocals)

----------------------------------------------------------------------------
(* The calls the model makes.                                              *)

SeqsOf(S, n) == [1..n -> S]

\* Timestamps in chronological order, several entries a day allowed.
Chronological(n) ==
    {d \in SeqsOf(0..MaxDay, n) : \A i \in 1..(n - 1) : d[i] <= d[i + 1]}

ArgSets ==
    UNION {
        [dates : Chronological(n), pnl : SeqsOf(PnlValues, n),
         test_period : 0..MaxPeriod, idx : RowIds, target_type : Targets,
         days_in_year : DaysInYearValues] : n \in 0..MaxLen}

IdleArgs ==
    [dates |-> <<>>, pnl |-> <<>>, test_period |-> 1, idx |-> DefaultIdx,
     target_type |-> "pct", days_in_year |-> DefaultDaysInYear]

ConsecutiveIdle ==
    /\ series = <<>>
    /\ positive = TRUE
    /\ pos = 0
    /\ best = 0
    /\ current = 0
    /\ cpc = "idle"

Init ==
    /\ args \in ArgSets
    /\ pc = "start"
    /\ locals = NoLocals
    /\ result = Pending
    /\ ConsecutiveIdle

Commit(nxt) ==
    /\ pc' = nxt.pc
    /\ locals' = nxt.locals
    /\ result' = nxt.result
    /\ UNCHANGED <<args, series, positive, pos, best, current, cpc>>

DoCheckSize ==
    /\ pc = "start"
    /\ Commit(CheckSize(args, locals))

DoAnnualize ==
    /\ pc = "annualize"
    /\ Commit(Annualize(args, locals))

DoAggregate ==
    /\ pc = "aggregate"
    /\ Commit(Aggregate(args, locals))

DoIterative ==
    /\ pc = "iterative"
    /\ Commit(Iterative(args, locals))

DoAssemble ==
    /\ pc = "assemble"
    /\ Commit(Assemble(args, locals))

Next ==
    \/ DoCheckSize
    \/ DoAnnualize
    \/ DoAggregate
    \/ DoIterative
    \/ DoAssemble

Spec == Init /\ [][Next]_vars

----------------------------------------------------------------------------
(* _calc_consecutive on its own, one loop pass per step.                   *)

InitConsecutive ==
    /\ args = IdleArgs
    /\ pc = "idle"
    /\ locals = NoLocals
    /\ result = Pending
    /\ series \in UNION {SeqsOf(SeriesValues, n) : n \in 0..MaxSeriesLen}
    /\ positive \in BOOLEAN
    /\ pos = 0
    /\ best = 0
    /\ current = 0
    /\ cpc = "loop"

LoopPass ==
    /\ cpc = "loop"
    /\ pos < Len(series)
    /\ LET st == LoopBody(series[pos + 1], positive, [best |-> best, current |-> current])
       IN  /\ best' = st.best
           /\ current' = st.current
    /\ pos' = pos + 1
    /\ UNCHANGED <<args, pc, locals, result, series, positive, cpc>>

LoopReturn ==
    /\ cpc = "loop"
    /\ pos = Len(series)
    /\ cpc' = "returned"
    /\ UNCHANGED <<args, pc, locals, result, series, positive, pos, best, current>>

NextConsecutive ==
    \/ LoopPass
    \/ LoopReturn

SpecConsecutive == InitConsecutive /\ [][NextConsecutive]_vars

----------------------------------------------------------------------------
(* Vocabulary of the properties, defined from the arguments alone.         *)

Returned == pc = "done" /\ result.kind = "frame"
NonDegenerate == Len(args.pnl) >= 2

RECURSIVE SumOver(_, _)
SumOver(I, s) ==
    IF I = {} THEN 0
    ELSE LET i == CHOOSE x \in I : TRUE IN s[i] + SumOver(I \ {i}, s)

FirstDay == MinOfSet(Range(args.dates))
LastDay == MaxOfSet(Range(args.dates))
Days == FirstDay..LastDay
EntriesOn(day) == {i \in 1..Len(args.pnl) : args.dates[i] = day}
BarOf(day) == SumOver(EntriesOn(day), args.pnl)
GapDays == {day \in Days : EntriesOn(day) = {}}
WinDays == {day \in Days : BarOf(day) > 0}
LossDays == {day \in Days : BarOf(day) < 0}
ActiveDays == {day \in Days : BarOf(day) # 0}

\* The 13 field names for the unit suffix u.
Schema(u) ==
    <<"sharpe", "sortino", "Kelly, %", "trades/year", "return/year, " \o u,
      "return/trade, " \o u, "PF", "Win, %", "Avg Win, " \o u, "Avg Loss, " \o u,
      "Max wins in row", "Max losses in row", "Max DD, " \o u>>

Suffix == IF args.target_type = "pct" THEN "%" ELSE "pp"

\* The length of the longest window of s whose values all have the wanted sign.
LongestRun(s, want_positive) ==
    MaxOfSet({0} \cup
        {j - i + 1 : <<i, j>> \in
            {w \in (1..Len(s)) \X (1..Len(s)) :
                w[1] <= w[2] /\ \A k \in w[1]..w[2] :
                    IF want_positive THEN s[k] > 0 ELSE s[k] < 0}})

Wanted(s, want_positive) ==
    {k \in 1..Len(s) : IF want_positive THEN s[k] > 0 ELSE s[k] < 0}

----------------------------------------------------------------------------
\* C1: a call whose pnl has 0 or 1 entries returns, without raising, a
\* one-row frame keyed by the supplied row id whose 13 fields are all None
\* and carry the suffix of the unit mode; no metric has been computed.
C1_ShortSeriesGivesEmptyRow ==
    (pc = "done" /\ Len(args.pnl) <= 1) =>
        /\ result.kind = "frame"
        /\ result.index = <<args.idx>>
        /\ result.columns = Schema(Suffix)
        /\ Len(result.values) = 13
        /\ \A i \in 1..13 : result.values[i] = None
        /\ locals = NoLocals

C1_Witness ==
    /\ pc = "done"
    /\ Len(args.pnl) = 1
    /\ args.pnl[1] # 0
    /\ args.idx # DefaultIdx
    /\ args.target_type = "nom"
    /\ args.test_period = 0
    /\ result.kind = "frame"

\* C2 (as claimed): a call with at least 2 entries and a positive
\* test_period never raises and returns 13 values none of which is NaN or
\* None.
C2_NoExceptionNoNaN ==
    (pc = "done" /\ NonDegenerate /\ args.test_period > 0) =>
        /\ result.kind = "frame"
        /\ Len(result.values) = 13
        /\ \A i \in 1..Len(result.values) : result.values[i].k \notin {"nan", "None"}

\* C3 (as claimed): with no strictly negative daily bar, PF is infinity and
\* Kelly is 0.
C3_NoLossGivesKellyZero ==
    (Returned /\ NonDegenerate /\ LossDays = {}) =>
        /\ Loc(result, "PF") = Inf
        /\ Loc(result, "Kelly, %") = Fin(0)

\* C3 (amended): with no strictly negative daily bar, every returned record
\* has PF infinity and Kelly 100: the infinite profit factor is truthy, the
\* formula is evaluated with win ratio 1.
C3_NoLossGivesKellyHundred ==
    (Returned /\ NonDegenerate /\ LossDays = {}) =>
        /\ Loc(result, "PF") = Inf
        /\ Loc(result, "Kelly, %") = Fin(100)

C3_Witness ==
    /\ Returned
    /\ NonDegenerate
    /\ LossDays = {}
    /\ GapDays # {}
    /\ Cardinality(WinDays) >= 2

\* C4: on either path the returned frame has one row and the 13 field names
\* of the schema, in order, with the suffix of the unit mode; the normal
\* path's names are those of _empty_row.
C4_SameSchemaOnBothPaths ==
    Returned =>
        /\ Len(result.index) = 1
        /\ result.columns = Schema(Suffix)
        /\ result.columns = _empty_row(args.idx, args.target_type).columns
        /\ Len(result.values) = Len(result.columns)

C4_Witness ==
    /\ Returned
    /\ NonDegenerate
    /\ args.target_type = "nom"
    /\ \A i \in 1..13 : result.values[i] # None

\* C5: the unscaled drawdown is the minimum over the positions j of the
\* cumulative sum of the non-zero bars at j minus the largest cumulative sum
\* at any i <= j; it is <= 0, and 0 exactly when no cumulative sum falls
\* below an earlier one.
C5_DrawdownIsMinBelowPeak ==
    locals.drawdown # None =>
        LET nz == locals.pnl_nz
            Cum(j) == SumOver(1..j, nz)
            Below(j) == Cum(j) - MaxOfSet({Cum(i) : i \in 1..j})
        IN  /\ Len(nz) = Cardinality(ActiveDays)
            /\ locals.drawdown = Fin(MinOfSet({Below(j) : j \in 1..Len(nz)}))
            /\ locals.drawdown.n <= 0
            /\ (locals.drawdown.n = 0) <=>
                   (\A j \in 1..Len(nz) : \A i \in 1..j : Cum(j) >= Cum(i))

C5_Witness ==
    /\ Returned
    /\ locals.drawdown = Fin(-2)
    /\ locals.pnl_nz[1] > 0

\* C6: trades/year is a non-negative integer, the count of non-zero pnl
\* entries (not bars) times days_in_year/test_period truncated toward zero.
C6_TradesPerYearTruncated ==
    locals.trades # None =>
        LET count == Cardinality({i \in 1..Len(args.pnl) : args.pnl[i] # 0})
            t == locals.trades
        IN  /\ t.k = "fin"
            /\ t.d = 1
            /\ t.n >= 0
            /\ t.n * args.test_period <= count * args.days_in_year
            /\ count * args.days_in_year < (t.n + 1) * args.test_period
            /\ Returned => Loc(result, "trades/year") = t

C6_Witness ==
    /\ Returned
    /\ Cardinality({i \in 1..Len(args.pnl) : args.pnl[i] # 0}) = 3
    /\ Cardinality(ActiveDays) = 1
    /\ args.test_period = 2
    /\ args.days_in_year = 7
    /\ Loc(result, "trades/year") = Fin(10)

\* C7: the call with the other unit mode on the same arguments returns the
\* same sharpe, sortino, Kelly, trades/year, PF, Win, Max wins and Max
\* losses, and each of return/year, return/trade, Avg Win, Avg Loss and
\* Max DD is the same unscaled value times 100 (pct) or 1 (nom), rounded.
C7_UnitModeOnlyScales ==
    (Returned /\ NonDegenerate) =>
        LET otherType == IF args.target_type = "pct" THEN "nom" ELSE "pct"
            other == stat_ts([args EXCEPT !.target_type = otherType])
            u == Suffix
            ou == IF otherType = "pct" THEN "%" ELSE "pp"
            m == Fin(IF args.target_type = "pct" THEN 100 ELSE 1)
            om == Fin(IF otherType = "pct" THEN 100 ELSE 1)
            wins == SelectSeq(locals.df, IsPos)
            losses == SelectSeq(locals.df, IsNeg)
            unscaled == <<
                <<"return/year, ", locals.total_return, 2>>,
                <<"return/trade, ", locals.return_per_trade, 3>>,
                <<"Avg Win, ", IF wins = <<>> THEN Fin(0) ELSE Mean(wins), 3>>,
                <<"Avg Loss, ", IF losses = <<>> THEN Fin(0) ELSE Mean(losses), 3>>,
                <<"Max DD, ", locals.drawdown, 2>> >>
        IN  /\ other.result.kind = "frame"
            /\ other.result.index = result.index
            /\ \A name \in {"sharpe", "sortino", "Kelly, %", "trades/year", "PF",
                            "Win, %", "Max wins in row", "Max losses in row"} :
                   Loc(other.result, name) = Loc(result, name)
            /\ \A i \in 1..Len(unscaled) :
                   /\ Loc(result, unscaled[i][1] \o u) =
                          Round(Mul(unscaled[i][2], m), unscaled[i][3])
                   /\ Loc(other.result, unscaled[i][1] \o ou) =
                          Round(Mul(unscaled[i][2], om), unscaled[i][3])

C7_Witness ==
    /\ Returned
    /\ NonDegenerate
    /\ args.target_type = "nom"
    /\ Loc(result, "Max DD, pp") = Fin(-1)
    /\ Loc(result, "return/trade, pp") = Rat(333, 1000)

\* C8 (as claimed): with test_period = 0 and at least 2 entries the call
\* does not end with an exception.
C8_ZeroPeriodDoesNotRaise ==
    (pc = "done" /\ NonDegenerate /\ args.test_period = 0) => result.kind # "raise"

\* C8 (amended): with test_period = 0 and at least 2 entries the call ends
\* with ZeroDivisionError at the annualization coefficient, before any
\* metric is computed, and returns no record.
C8_ZeroPeriodRaises ==
    (pc = "done" /\ NonDegenerate /\ args.test_period = 0) =>
        /\ result = Raise("ZeroDivisionError")
        /\ locals = NoLocals

C8_Witness ==
    /\ pc = "done"
    /\ NonDegenerate
    /\ args.test_period = 0
    /\ count_nonzero(args.pnl) > 0
    /\ result.kind = "raise"

\* C9: _calc_consecutive returns the length of the longest contiguous run of
\* values of the wanted sign: after every loop pass best is that length for
\* the values seen so far (so a zero or a value of the other sign never
\* lowers it), it is 0 when no value has the wanted sign, and it never
\* exceeds the number of values of the wanted sign.
C9_LongestRunOfWantedSign ==
    /\ cpc \in {"loop", "returned"} =>
           /\ best = LongestRun(SubSeq(series, 1, pos), positive)
           /\ best <= Cardinality(Wanted(SubSeq(series, 1, pos), positive))
           /\ (Wanted(SubSeq(series, 1, pos), positive) = {}) => best = 0
    /\ cpc = "returned" =>
           /\ pos = Len(series)
           /\ best = _calc_consecutive(series, positive)

C9_Witness ==
    /\ cpc = "returned"
    /\ ~positive
    /\ Len(series) = 4
    /\ series[2] = 0
    /\ series[4] > 0
    /\ best = 1
    /\ Cardinality(Wanted(series, positive)) = 2

\* C10: the daily bars are one per calendar day from the first to the last
\* timestamp, each the sum of the day's entries (0 for a day without one);
\* the mean and both population standard deviations are taken over all of
\* these days, the win ratio's denominator, the streaks and the drawdown
\* over the non-zero bars only, in day order.
C10_OneBarPerCalendarDay ==
    /\ locals.daily_mean # None =>
           LET N == LastDay - FirstDay + 1
               S == SumOver(1..Len(args.pnl), args.pnl)
               Sq == SumOver(1..N, [j \in 1..N |-> BarOf(FirstDay + j - 1) * BarOf(FirstDay + j - 1)])
               down == [j \in 1..N |-> MinInt(BarOf(FirstDay + j - 1), 0)]
               DS == SumOver(1..N, down)
               DSq == SumOver(1..N, [j \in 1..N |-> down[j] * down[j]])
           IN  /\ Len(locals.df) = N
               /\ \A day \in Days : locals.df[day - FirstDay + 1] = BarOf(day)
               /\ locals.daily_mean = Rat(S, N)
               /\ locals.daily_std = [Rat(N * Sq - S * S, N * N) EXCEPT !.k = "sqrt"]
               /\ locals.neg_std = [Rat(N * DSq - DS * DS, N * N) EXCEPT !.k = "sqrt"]
               /\ locals.win_pct = NpDiv(Fin(Cardinality(WinDays)), Fin(Cardinality(ActiveDays)))
    /\ locals.max_win_cons # None =>
           LET nz == locals.pnl_nz
               Kth(k) == CHOOSE day \in ActiveDays :
                             Cardinality({e \in ActiveDays : e <= day}) = k
           IN  /\ Len(nz) = Cardinality(ActiveDays)
               /\ \A k \in 1..Len(nz) : nz[k] = BarOf(Kth(k))
               /\ locals.max_win_cons = Fin(LongestRun(nz, TRUE))
               /\ locals.max_loss_cons = Fin(LongestRun(nz, FALSE))
               /\ locals.cs = [j \in 1..Len(nz) |-> SumOver(1..j, nz)]

C10_Witness ==
    /\ Returned
    /\ NonDegenerate
    /\ GapDays # {}
    /\ \E day \in Days : Cardinality(EntriesOn(day)) = 2
    /\ Loc(result, "Max wins in row") = Fin(2)

====
